---------------------------- MODULE Spec2Model ----------------------------
(***************************************************************************)
(* Model of src/demographic_analytics.js: the dashboard's load steps, its  *)
(* render functions, the initial load and the periodic refresh.            *)
(*                                                                         *)
(* Lines 1-8 of the file are a fragment of Java around the script; the     *)
(* model is of the JavaScript functions, lines 9-563.                      *)
(*                                                                         *)
(* Conventions.                                                            *)
(*  - A JavaScript object is a TLA+ function whose DOMAIN is the set of    *)
(*    the object's own keys; a key outside the DOMAIN reads as undefined.  *)
(*  - Text written to the page is a TLA+ string, built the way the         *)
(*    template literal builds it.                                          *)
(*  - Ages and risk scores have two decimals in the source (0.04, 0.42):   *)
(*    they are held in hundredths (4, 42), so the arithmetic is exact.     *)
(*  - A JavaScript number is [t |-> "number", v |-> hundredths]; any other *)
(*    value that reaches arithmetic is [t |-> "function", v |-> 0] (an     *)
(*    inherited member of Object.prototype) and turns the result into NaN. *)
(***************************************************************************)
EXTENDS Integers, Sequences, FiniteSets, TLC

(* ------------------------------ bounds -------------------------------- *)
\* periodic refresh cycles the timer may start in one run
MaxCycles == 2
\* largest patient count of one age group in a summary
MaxCount == 10
\* largest number of age groups in one summary
MaxGroups == 2
\* largest number of entries of high_risk_demographics in one response
MaxRiskGroups == 2

(* ---------------------------- small helpers --------------------------- *)
Pad(n, w) == IF w = 3 /\ n < 10 THEN "00" \o ToString(n)
             ELSE IF (w = 3 /\ n < 100) \/ (w = 2 /\ n < 10) THEN "0" \o ToString(n)
             ELSE ToString(n)

\* Number.prototype.toLocaleString of a non-negative integer, en-US grouping
RECURSIVE toLocaleString(_)
toLocaleString(n) == IF n < 1000 THEN ToString(n)
                     ELSE toLocaleString(n \div 1000) \o "," \o Pad(n % 1000, 3)

\* Number.prototype.toFixed(2) of a non-negative number held in hundredths
toFixed2(h) == ToString(h \div 100) \o "." \o Pad(h % 100, 2)

(* ----------------------- estimateAverageAge --------------------------- *)
Num(h) == [t |-> "number", v |-> h]
NonNumber == [t |-> "function", v |-> 0]

\* the object literal `estimates`, ages in hundredths of a year
estimates ==
  [g \in {"Neonate (0-28 days)", "Infant (29 days - 1 year)", "Toddler (1-3 years)",
          "Preschool (3-5 years)", "School Age (5-12 years)",
          "Adolescent (12-18 years)", "Young Adult (18-40 years)",
          "Middle Adult (40-65 years)", "Geriatric (>65 years)"} |->
     CASE g = "Neonate (0-28 days)" -> 4
       [] g = "Infant (29 days - 1 year)" -> 50
       [] g = "Toddler (1-3 years)" -> 200
       [] g = "Preschool (3-5 years)" -> 400
       [] g = "School Age (5-12 years)" -> 800
       [] g = "Adolescent (12-18 years)" -> 1500
       [] g = "Young Adult (18-40 years)" -> 2900
       [] g = "Middle Adult (40-65 years)" -> 5200
       [] g = "Geriatric (>65 years)" -> 7500]

\* `estimates` is a plain object literal: a key it does not own is looked up
\* on Object.prototype, whose members are functions (or, for __proto__, an
\* object): all truthy, none a number.
ObjectPrototypeKeys ==
  {"constructor", "toString", "toLocaleString", "valueOf", "hasOwnProperty",
   "isPrototypeOf", "propertyIsEnumerable", "__proto__"}

\* return estimates[ageGroup] || 40
estimateAverageAge(ageGroup) ==
  IF ageGroup \in DOMAIN estimates
    THEN (IF estimates[ageGroup] # 0 THEN Num(estimates[ageGroup]) ELSE Num(4000))
  ELSE IF ageGroup \in ObjectPrototypeKeys THEN NonNumber
  ELSE Num(4000)

(* ------------- loadOverviewData: the average-age computation ---------- *)
\* the forEach of lines 69-75: totalAge (hundredths, or NaN) and count
RECURSIVE SumGroups(_, _)
SumGroups(dist, groups) ==
  IF groups = {} THEN [nan |-> FALSE, totalAge |-> 0, count |-> 0]
  ELSE LET group == CHOOSE g \in groups : TRUE
           rest == SumGroups(dist, groups \ {group})
           groupCount == dist[group]
           avgAge == estimateAverageAge(group)
       IN [nan |-> rest.nan \/ avgAge.t # "number",
           totalAge |-> rest.totalAge + avgAge.v * groupCount,
           count |-> rest.count + groupCount]

\* Math.round(x / y) for x >= 0 in hundredths and y > 0: half rounds up
RoundDiv(totalAge, count) == (2 * totalAge + 100 * count) \div (200 * count)

\* const averageAge = count > 0 ? Math.round(totalAge / count) : 0, as the
\* text `${averageAge}`
averageAgeText(dist) ==
  LET s == SumGroups(dist, DOMAIN dist)
  IN IF s.count > 0
       THEN (IF s.nan THEN "NaN" ELSE ToString(RoundDiv(s.totalAge, s.count)))
       ELSE "0"

(* --------------------------- the document ----------------------------- *)
TextIds == {"total-patients", "average-age", "gender-distribution"}
ChartIds == {"gender-comparison-chart", "gender-risk-chart",
             "age-distribution-chart", "age-risk-chart"}
RiskListIds == {"high-risk-list", "medium-risk-list", "low-risk-list"}
InsightListIds == {"female-insights", "male-insights", "geriatric-insights",
                   "pediatric-insights"}
NormsBodyId == "population-norms-table tbody"
ContainerIds == RiskListIds \cup InsightListIds \cup {NormsBodyId}

VARIABLES
  text,      \* textContent of the three overview fields
  charts,    \* what Plotly.newPlot last drew in each chart div (<<>>: nothing)
  lists,     \* the child elements of every container, in document order
  present,   \* the insight lists the document has (getElementById finds them)
  console,   \* per process, the messages it wrote to the console, in order
  pos,       \* per process, the load step it is suspended in (0: not started)
  calls,     \* per process, the load steps it has invoked, in order
  notified,  \* per process, the notifications it has appended to document.body
             \* (each removes itself after 3 or 5 seconds: not modelled)
  timer,     \* number of interval timers installed by setInterval
  ticks,     \* number of times the interval timer has fired
  writer,    \* the process that last wrote the overview fields (-1: none)
  lastCall,  \* render harness: the last render call and its input
  repeated,  \* render harness: the last call repeated the one before it
  afterFirst \* render harness: the containers after the first of equal calls

domVars == <<text, charts, lists, present>>
procVars == <<console, pos, calls, notified, timer, ticks, writer>>
harnessVars == <<lastCall, repeated, afterFirst>>
vars == <<domVars, procVars, harnessVars>>

(* ------------------- loadOverviewData: the render --------------------- *)
\* `${genderDist.x || 0}`
GenderCount(genderDist, k) ==
  IF k \in DOMAIN genderDist THEN ToString(genderDist[k]) ELSE "0"

\* lines 59-84: the body of the try block after the response is parsed.
\* data.summary.total_patients.toLocaleString() throws a TypeError when
\* total_patients is undefined, before anything is written.
renderOverview(data, txt) ==
  IF "summary" \notin DOMAIN data THEN [text |-> txt, threw |-> FALSE]
  ELSE IF "total_patients" \notin DOMAIN data.summary
    THEN [text |-> txt, threw |-> TRUE]
  ELSE
    LET summary == data.summary
        dist == IF "age_group_distribution" \in DOMAIN summary
                  THEN summary.age_group_distribution ELSE <<>>
        genderDist == IF "gender_distribution" \in DOMAIN summary
                        THEN summary.gender_distribution ELSE <<>>
    IN [text |->
          [txt EXCEPT
            !["total-patients"] = toLocaleString(summary.total_patients),
            !["average-age"] = averageAgeText(dist) \o " years",
            !["gender-distribution"] =
               "M:" \o GenderCount(genderDist, "male") \o
               " F:" \o GenderCount(genderDist, "female") \o
               " O:" \o GenderCount(genderDist, "other")],
        threw |-> FALSE]

(* -------------------------- populateRiskLists ------------------------- *)
RiskItem(cls, demographic, value) ==
  [className |-> cls, demographic |-> demographic, value |-> value]

mediumRiskItems == << RiskItem("risk-item risk-medium", "Female, Young Adult", toFixed2(42)),
                      RiskItem("risk-item risk-medium", "Male, Middle Adult", toFixed2(38)) >>
lowRiskItems == << RiskItem("risk-item risk-low", "Female, Adolescent", toFixed2(18)),
                   RiskItem("risk-item risk-low", "Male, School Age", toFixed2(15)) >>

\* lines 330-338: group.mean_risk.toFixed(2) throws a TypeError when
\* mean_risk is undefined; the items before it are already appended.
RECURSIVE AppendHighRisk(_, _)
AppendHighRisk(groups, acc) ==
  IF groups = <<>> THEN [items |-> acc, threw |-> FALSE]
  ELSE LET group == Head(groups) IN
    IF "mean_risk" \notin DOMAIN group THEN [items |-> acc, threw |-> TRUE]
    ELSE AppendHighRisk(Tail(groups),
           Append(acc, RiskItem("risk-item risk-high",
                                IF "demographic" \in DOMAIN group
                                  THEN group.demographic ELSE "undefined",
                                toFixed2(group.mean_risk))))

\* innerHTML = '' on the three risk lists (lines 324-326)
ClearRiskLists(ls) ==
  [id \in DOMAIN ls |-> IF id \in RiskListIds THEN <<>> ELSE ls[id]]

populateRiskLists(data, ls) ==
  LET cleared == ClearRiskLists(ls) IN
  IF "high_risk_demographics" \notin DOMAIN data
    THEN [lists |-> cleared, threw |-> FALSE]
  ELSE
    LET high == AppendHighRisk(data.high_risk_demographics, cleared["high-risk-list"])
    IN IF high.threw
         THEN [lists |-> [cleared EXCEPT !["high-risk-list"] = high.items],
               threw |-> TRUE]
         ELSE [lists |-> [cleared EXCEPT
                  !["high-risk-list"] = high.items,
                  !["medium-risk-list"] = @ \o mediumRiskItems,
                  !["low-risk-list"] = @ \o lowRiskItems],
               threw |-> FALSE]

(* ------------------------- populateInsightList ------------------------ *)
femaleInsights ==
  << "Higher autoimmune disease prevalence may complicate diagnosis",
     "Consider pregnancy status in women of childbearing age",
     "Gynecological sources should be considered in sepsis workup",
     "May present with more robust inflammatory response" >>
maleInsights ==
  << "Higher baseline mortality risk from sepsis",
     "Consider prostate/urinary sources in older males",
     "May have delayed presentation to healthcare",
     "Higher risk of community-acquired pneumonia" >>
geriatricInsights ==
  << "Atypical presentation common - watch for delirium or functional decline",
     "Lower fever threshold (>=37.8 C may be significant)",
     "Multiple comorbidities can mask sepsis symptoms",
     "Higher risk of healthcare-associated infections" >>
pediatricInsights ==
  << "Rapid deterioration possible in neonates and infants",
     "Non-specific symptoms: poor feeding, lethargy, irritability",
     "Higher heart rate and respiratory rate baselines",
     "Consider maternal risk factors for early-onset sepsis" >>

\* list.innerHTML = '' omitted: the new items follow the old ones
populateInsightListNoClear(listId, insights, ls, pres) ==
  IF listId \notin pres THEN ls
  ELSE [ls EXCEPT ![listId] = @ \o insights]

populateInsightList(listId, insights, ls, pres) ==
  IF listId \notin pres THEN ls
  ELSE [ls EXCEPT ![listId] = <<>> \o insights]

\* the four calls of loadDemographicInsights (lines 404-407)
renderInsights(ls, pres) ==
  populateInsightList("pediatric-insights", pediatricInsights,
    populateInsightList("geriatric-insights", geriatricInsights,
      populateInsightList("male-insights", maleInsights,
        populateInsightList("female-insights", femaleInsights, ls, pres),
        pres), pres), pres)

(* -------------------------- loadPopulationNorms ----------------------- *)
ageGroups == << "Neonate", "Infant", "Toddler", "Preschool", "School Age",
                "Adolescent", "Young Adult", "Middle Adult", "Geriatric" >>

Norm(hr, bp, rr, temp, risk) ==
  [hr |-> hr, bp |-> bp, rr |-> rr, temp |-> temp, risk |-> risk]

sampleNorms ==
  [g \in {ageGroups[i] : i \in 1..Len(ageGroups)} |->
     CASE g = "Neonate" -> Norm("120-160", "60-90", "30-60", "36.5-37.5", "2.5")
       [] g = "Infant" -> Norm("80-140", "70-100", "20-40", "36.6-37.7", "1.8")
       [] g = "Toddler" -> Norm("70-120", "80-110", "20-30", "36.7-37.8", "1.2")
       [] g = "Preschool" -> Norm("65-110", "85-115", "20-30", "36.5-37.5", "0.9")
       [] g = "School Age" -> Norm("60-100", "90-120", "15-25", "36.5-37.5", "0.8")
       [] g = "Adolescent" -> Norm("55-95", "95-125", "12-20", "36.5-37.5", "0.6")
       [] g = "Young Adult" -> Norm("60-100", "105-130", "12-20", "36.5-37.5", "0.9")
       [] g = "Middle Adult" -> Norm("60-100", "110-135", "12-20", "36.5-37.5", "1.2")
       [] g = "Geriatric" -> Norm("60-100", "115-140", "12-25", "36.0-37.2", "5.4")]

getAgeGroupClass(ageGroup) ==
  CASE ageGroup = "Neonate" -> "neonate"
    [] ageGroup \in {"Infant", "Toddler", "Preschool", "School Age"} -> "pediatric"
    [] ageGroup = "Geriatric" -> "geriatric"
    [] OTHER -> "adult"

\* `${norms.x || 'N/A'}`
NormCell(norms, k) ==
  IF k \in DOMAIN norms /\ norms[k] # "" THEN norms[k] ELSE "N/A"

NormsRow(group) ==
  LET norms == IF group \in DOMAIN sampleNorms THEN sampleNorms[group] ELSE <<>>
  IN [badge |-> "age-group-badge badge-" \o getAgeGroupClass(group),
      group |-> group,
      hr |-> NormCell(norms, "hr"), bp |-> NormCell(norms, "bp"),
      rr |-> NormCell(norms, "rr"), temp |-> NormCell(norms, "temp"),
      risk |-> NormCell(norms, "risk")]

\* lines 442-472: the tbody is emptied, then one row is appended per group
renderNorms(ls) ==
  [ls EXCEPT ![NormsBodyId] = [i \in 1..Len(ageGroups) |-> NormsRow(ageGroups[i])]]

(* ------------------------------ the charts ---------------------------- *)
Field(obj, k) == IF k \in DOMAIN obj THEN obj[k] ELSE "undefined"

\* lines 125-177: one grouped bar chart, a bar per metric and gender
createGenderComparisonChart(data, ch) ==
  IF "gender_comparisons" \notin DOMAIN data THEN ch
  ELSE LET gc == data.gender_comparisons IN
    [ch EXCEPT !["gender-comparison-chart"] =
       [title |-> "Vital Sign Comparison by Gender",
        x |-> DOMAIN gc,
        y |-> [m \in DOMAIN gc |-> <<Field(gc[m], "male_mean"),
                                     Field(gc[m], "female_mean")>>]]]

\* lines 179-207: a fixed sample chart, whatever the data
createGenderRiskChart(data, ch) ==
  [ch EXCEPT !["gender-risk-chart"] =
     [title |-> "Average Sepsis Risk by Gender",
      x |-> {"Male", "Female", "Other"},
      y |-> [g \in {"Male", "Female", "Other"} |->
               CASE g = "Male" -> 35 [] g = "Female" -> 28 [] OTHER -> 31]]]

\* lines 225-267: a pie of the age-group counts
createAgeDistributionChart(data, ch) ==
  IF "age_group_counts" \notin DOMAIN data THEN ch
  ELSE [ch EXCEPT !["age-distribution-chart"] =
          [title |-> "Patient Distribution by Age Group",
           x |-> DOMAIN data.age_group_counts,
           y |-> data.age_group_counts]]

\* lines 269-304: the mean heart rate of every age group
createAgeRiskChart(data, ch) ==
  IF "age_group_means" \notin DOMAIN data
     \/ "heart_rate" \notin DOMAIN data.age_group_means THEN ch
  ELSE LET hr == data.age_group_means.heart_rate IN
    [ch EXCEPT !["age-risk-chart"] =
       [title |-> "Heart Rate Trends Across Age Groups",
        x |-> DOMAIN hr,
        y |-> [g \in DOMAIN hr |-> Field(hr[g], "mean")]]]

(* --------------------------- fetch outcomes --------------------------- *)
\* await fetch(url) rejects, or await response.json() rejects, or the body
\* parses to data
Rejected == [kind |-> "reject"]
Unparsable == [kind |-> "invalid"]
Json(d) == [kind |-> "json", data |-> d]
Outcomes(payloads) == {Rejected, Unparsable} \cup {Json(d) : d \in payloads}

EmptyObject == <<>>

\* bodies /api/demographic/dashboard answers with in the orchestration runs:
\* one whose render throws and one it renders in full (OverviewSpec covers the
\* others)
OverviewPayloads ==
  { [summary |-> EmptyObject],
    [summary |-> [total_patients |-> 1200,
                  age_group_distribution |->
                    [g \in {"Neonate (0-28 days)", "Young Adult (18-40 years)"} |-> 10],
                  gender_distribution |-> [male |-> 12, female |-> 8]]] }

GenderPayloads ==
  { [gender_comparisons |->
       [m \in {"heart_rate"} |-> [male_mean |-> 78, female_mean |-> 82, p_value |-> 3]]] }

AgePayloads ==
  { [age_group_counts |-> [g \in {"Neonate (0-28 days)"} |-> 10],
     age_group_means |->
       [heart_rate |-> [g \in {"Neonate (0-28 days)"} |-> [mean |-> 140]]]] }

RiskEntries ==
  { [demographic |-> "Male, Geriatric", mean_risk |-> 71],
    [demographic |-> "Female, Neonate"] }

\* every body /api/demographic/analysis?analysis_type=population_risk may
\* answer with, up to MaxRiskGroups entries
AllRiskPayloads ==
  {EmptyObject} \cup
  { [high_risk_demographics |-> gs] :
      gs \in UNION {[1..n -> RiskEntries] : n \in 0..MaxRiskGroups} }

\* the body it answers with in the orchestration runs (the bodies that make
\* populateRiskLists return early or throw are covered by RenderSpec)
RiskPayloads ==
  { [high_risk_demographics |-> <<[demographic |-> "Male, Geriatric", mean_risk |-> 71]>>] }

(* ----------------------------- load steps ----------------------------- *)
\* Each load step is `try { fetch; json; render } catch (error) {
\* console.error(...) }`: `error` tells whether the catch block ran.
loadOverviewData(o, txt) ==
  IF o.kind # "json" THEN [text |-> txt, error |-> TRUE]
  ELSE LET r == renderOverview(o.data, txt) IN [text |-> r.text, error |-> r.threw]

loadGenderAnalysis(o, ch) ==
  IF o.kind # "json" THEN [charts |-> ch, error |-> TRUE]
  ELSE [charts |-> createGenderRiskChart(o.data, createGenderComparisonChart(o.data, ch)),
        error |-> FALSE]

loadAgeGroupAnalysis(o, ch) ==
  IF o.kind # "json" THEN [charts |-> ch, error |-> TRUE]
  ELSE [charts |-> createAgeRiskChart(o.data, createAgeDistributionChart(o.data, ch)),
        error |-> FALSE]

loadRiskStratification(o, ls) ==
  IF o.kind # "json" THEN [lists |-> ls, error |-> TRUE]
  ELSE LET r == populateRiskLists(o.data, ls) IN [lists |-> r.lists, error |-> r.threw]

\* the catch block of a load step (lines 86-88, 120-122, 220-222, 313-315,
\* 409-411, 474-476) logs and returns: the step's promise never rejects
StepRejected(error) == FALSE

StepErrorMessage(step) ==
  CASE step = "loadOverviewData" -> "Error loading overview data:"
    [] step = "loadGenderAnalysis" -> "Error loading gender analysis:"
    [] step = "loadAgeGroupAnalysis" -> "Error loading age group analysis:"
    [] step = "loadRiskStratification" -> "Error loading risk stratification:"
    [] step = "loadDemographicInsights" -> "Error loading demographic insights:"
    [] step = "loadPopulationNorms" -> "Error loading population norms:"

(* ------------------------------ processes ----------------------------- *)
\* process 0 is initializeDemographicAnalytics; process c >= 1 is the c-th
\* run of updateDemographicData
InitialLoad == 0
Cycles == 1..MaxCycles
Procs == {InitialLoad} \cup Cycles

\* the awaits of initializeDemographicAnalytics, lines 28-43
InitSteps == << "loadOverviewData", "loadGenderAnalysis", "loadAgeGroupAnalysis",
                "loadRiskStratification", "loadDemographicInsights",
                "loadPopulationNorms" >>

\* a refresh that also reloads the risk stratification
RefreshStepsWithRisk == << "loadOverviewData", "loadGenderAnalysis",
                           "loadAgeGroupAnalysis", "loadRiskStratification" >>

\* the awaits of updateDemographicData, lines 499-501
RefreshSteps == << "loadOverviewData", "loadGenderAnalysis", "loadAgeGroupAnalysis" >>

Steps(p) == IF p = InitialLoad THEN InitSteps ELSE RefreshSteps
Done(p) == Len(Steps(p)) + 1

NotStarted(p) == pos[p] = 0
Loading(p) == pos[p] \in 1..Len(Steps(p))
Returned(p) == pos[p] = Done(p)
At(p, step) == Loading(p) /\ Steps(p)[pos[p]] = step

ErrorNotification ==
  [className |-> "error-notification",
   message |-> "Failed to load demographic analytics", by |-> InitialLoad]
SuccessNotification(p) ==
  [className |-> "notification notification-success",
   message |-> "Demographic data updated", by |-> p]

\* a failed step puts its caller in a terminal error state, past Done
AfterStepErrorTerminal(steps, i, error) ==
  IF error THEN Len(steps) + 2
  ELSE IF i = Len(steps) THEN Len(steps) + 1 ELSE i + 1

\* where the caller's sequence of awaits goes when step i has settled: to its
\* catch block and out if the step's promise rejected, else to the next await,
\* or past the last one
AfterStep(steps, i, error) ==
  IF StepRejected(error) \/ i = Len(steps) THEN Len(steps) + 1 ELSE i + 1

\* The continuation of the caller p after its step at pos[p] has settled, up
\* to its next await: the step's own console.error, then either the caller's
\* catch block (showError for the initial load, lines 48-51; console.error
\* alone for a refresh, lines 505-507), or the call of the next step, or the
\* code after the last await (setInterval, line 46; showNotification, line 503).
Resume(p, error) ==
  LET steps == Steps(p)
      i == pos[p]
      next == AfterStep(steps, i, error)
      rejected == StepRejected(error)
      caught == rejected /\ next = Len(steps) + 1
      completed == ~rejected /\ next = Len(steps) + 1
      shown == IF caught /\ p = InitialLoad THEN <<ErrorNotification>>
               ELSE IF completed /\ p # InitialLoad THEN <<SuccessNotification(p)>>
               ELSE <<>>
  IN /\ pos' = [pos EXCEPT ![p] = next]
     /\ console' = [console EXCEPT ![p] =
          @ \o (IF error THEN <<StepErrorMessage(steps[i])>> ELSE <<>>)
            \o (IF ~caught THEN <<>>
                ELSE IF p = InitialLoad
                  THEN <<"Error initializing demographic analytics:">>
                  ELSE <<"Error updating demographic data:">>)]
     /\ calls' = [calls EXCEPT ![p] =
          IF next # i /\ next <= Len(steps) THEN Append(@, steps[next]) ELSE @]
     /\ notified' = [notified EXCEPT ![p] = @ \o shown]
     /\ timer' = IF completed /\ p = InitialLoad THEN timer + 1 ELSE timer

(* ------------------------------- actions ------------------------------ *)
\* setInterval is called before the awaits instead of after them
DOMContentLoadedInstallsTimer ==
  /\ NotStarted(InitialLoad)
  /\ pos' = [pos EXCEPT ![InitialLoad] = 1]
  /\ calls' = [calls EXCEPT ![InitialLoad] = <<InitSteps[1]>>]
  /\ timer' = timer + 1
  /\ UNCHANGED <<domVars, console, notified, ticks, writer, harnessVars>>

\* lines 21-23: the page has loaded; initializeDemographicAnalytics runs up
\* to its first await, inside loadOverviewData
DOMContentLoaded ==
  /\ NotStarted(InitialLoad)
  /\ pos' = [pos EXCEPT ![InitialLoad] = 1]
  /\ calls' = [calls EXCEPT ![InitialLoad] = <<InitSteps[1]>>]
  /\ UNCHANGED <<domVars, console, notified, timer, ticks, writer, harnessVars>>

\* a tick is skipped while an earlier refresh is still loading
TickSingleFlight ==
  /\ timer > 0
  /\ ticks < MaxCycles
  /\ \A c \in Cycles : ~Loading(c)
  /\ ticks' = ticks + 1
  /\ pos' = [pos EXCEPT ![ticks + 1] = 1]
  /\ calls' = [calls EXCEPT ![ticks + 1] = <<RefreshSteps[1]>>]
  /\ console' = [console EXCEPT ![ticks + 1] = <<"Updating demographic data...">>]
  /\ UNCHANGED <<domVars, notified, timer, writer, harnessVars>>

\* the interval is cleared once a refresh has logged an error
TickUntilError ==
  /\ timer > 0
  /\ ticks < MaxCycles
  /\ \A c \in Cycles : Len(console[c]) <= 1
  /\ ticks' = ticks + 1
  /\ pos' = [pos EXCEPT ![ticks + 1] = 1]
  /\ calls' = [calls EXCEPT ![ticks + 1] = <<RefreshSteps[1]>>]
  /\ console' = [console EXCEPT ![ticks + 1] = <<"Updating demographic data...">>]
  /\ UNCHANGED <<domVars, notified, timer, writer, harnessVars>>

\* line 46: the interval timer fires; updateDemographicData logs and runs up
\* to its first await, inside loadOverviewData (lines 495-499)
Tick ==
  /\ timer > 0
  /\ ticks < MaxCycles
  /\ ticks' = ticks + 1
  /\ pos' = [pos EXCEPT ![ticks + 1] = 1]
  /\ calls' = [calls EXCEPT ![ticks + 1] = <<RefreshSteps[1]>>]
  /\ console' = [console EXCEPT ![ticks + 1] = <<"Updating demographic data...">>]
  /\ UNCHANGED <<domVars, notified, timer, writer, harnessVars>>

\* the fetch of loadOverviewData settles (lines 56-88), and its caller resumes
OverviewSettles(p, o) ==
  /\ At(p, "loadOverviewData")
  /\ LET r == loadOverviewData(o, text) IN
       /\ text' = r.text
       /\ writer' = IF ~r.error /\ "summary" \in DOMAIN o.data THEN p ELSE writer
       /\ Resume(p, r.error)
  /\ UNCHANGED <<charts, lists, present, ticks, harnessVars>>

\* the fetch of loadGenderAnalysis settles (lines 111-122)
GenderSettles(p, o) ==
  /\ At(p, "loadGenderAnalysis")
  /\ LET r == loadGenderAnalysis(o, charts) IN
       /\ charts' = r.charts
       /\ Resume(p, r.error)
  /\ UNCHANGED <<text, lists, present, ticks, writer, harnessVars>>

\* the fetch of loadAgeGroupAnalysis settles (lines 211-222)
AgeSettles(p, o) ==
  /\ At(p, "loadAgeGroupAnalysis")
  /\ LET r == loadAgeGroupAnalysis(o, charts) IN
       /\ charts' = r.charts
       /\ Resume(p, r.error)
  /\ UNCHANGED <<text, lists, present, ticks, writer, harnessVars>>

\* the fetch of loadRiskStratification settles (lines 308-315)
RiskSettles(p, o) ==
  /\ At(p, "loadRiskStratification")
  /\ LET r == loadRiskStratification(o, lists) IN
       /\ lists' = r.lists
       /\ Resume(p, r.error)
  /\ UNCHANGED <<text, charts, present, ticks, writer, harnessVars>>

\* loadDemographicInsights runs (lines 373-412): no fetch, nothing throws
InsightsRun(p) ==
  /\ At(p, "loadDemographicInsights")
  /\ lists' = renderInsights(lists, present)
  /\ Resume(p, FALSE)
  /\ UNCHANGED <<text, charts, present, ticks, writer, harnessVars>>

\* loadPopulationNorms runs (lines 427-477): no fetch, nothing throws
NormsRun(p) ==
  /\ At(p, "loadPopulationNorms")
  /\ lists' = renderNorms(lists)
  /\ Resume(p, FALSE)
  /\ UNCHANGED <<text, charts, present, ticks, writer, harnessVars>>

NoCall == [fn |-> "none"]

Blank == ""
NoChart == <<>>

Init ==
  /\ text = [id \in TextIds |-> Blank]
  /\ charts = [id \in ChartIds |-> NoChart]
  /\ lists = [id \in ContainerIds |-> <<>>]
  /\ present = InsightListIds
  /\ console = [p \in Procs |-> <<>>]
  /\ pos = [p \in Procs |-> 0]
  /\ calls = [p \in Procs |-> <<>>]
  /\ notified = [p \in Procs |-> <<>>]
  /\ timer = 0
  /\ ticks = 0
  /\ writer = -1
  /\ lastCall = NoCall
  /\ repeated = FALSE
  /\ afterFirst = lists

Settles ==
  \E p \in Procs :
    \/ \E o \in Outcomes(OverviewPayloads) : OverviewSettles(p, o)
    \/ \E o \in Outcomes(GenderPayloads) : GenderSettles(p, o)
    \/ \E o \in Outcomes(AgePayloads) : AgeSettles(p, o)
    \/ \E o \in Outcomes(RiskPayloads) : RiskSettles(p, o)

Runs == \E p \in Procs : InsightsRun(p) \/ NormsRun(p)

Next == DOMContentLoaded \/ Tick \/ Settles \/ Runs

Spec == Init /\ [][Next]_vars

\* every fetch settles in the end, and a step without a fetch runs at once
StepOf(p) ==
  \/ \E o \in Outcomes(OverviewPayloads) : OverviewSettles(p, o)
  \/ \E o \in Outcomes(GenderPayloads) : GenderSettles(p, o)
  \/ \E o \in Outcomes(AgePayloads) : AgeSettles(p, o)
  \/ \E o \in Outcomes(RiskPayloads) : RiskSettles(p, o)
  \/ InsightsRun(p)
  \/ NormsRun(p)

FairSpec == Spec /\ \A p \in Procs : WF_vars(StepOf(p))

(* ---------- direct calls of loadOverviewData (module.exports) --------- *)
AgeLabels == DOMAIN estimates \cup {"Unknown", "constructor"}

\* age_group_distribution: at most MaxGroups labels, each with a count
Distributions ==
  UNION { [G -> 0..MaxCount] :
            G \in {H \in SUBSET AgeLabels : Cardinality(H) <= MaxGroups} }

Optional(k, values) == {EmptyObject} \cup {k :> v : v \in values}

Summaries ==
  { tp @@ ad @@ gd :
      tp \in Optional("total_patients", {1200}),
      ad \in Optional("age_group_distribution", Distributions),
      gd \in Optional("gender_distribution", {[male |-> 12, female |-> 8]}) }

AllOverviewPayloads == {EmptyObject} \cup {[summary |-> sm] : sm \in Summaries}

OverviewInit ==
  /\ text = [id \in TextIds |-> Blank]
  /\ charts = [id \in ChartIds |-> NoChart]
  /\ lists = [id \in ContainerIds |-> <<>>]
  /\ present = InsightListIds
  /\ console = [p \in Procs |-> <<>>]
  /\ pos = [p \in Procs |-> 0]
  /\ calls = [p \in Procs |-> <<>>]
  /\ notified = [p \in Procs |-> <<>>]
  /\ timer = 0
  /\ ticks = 0
  /\ writer = -1
  /\ \E o \in Outcomes(AllOverviewPayloads) :
       lastCall = [fn |-> "loadOverviewData", arg |-> o]
  /\ repeated = FALSE
  /\ afterFirst = lists

\* loadOverviewData is called once, and its fetch settles with lastCall.arg
CallLoadOverviewData ==
  /\ calls[InitialLoad] = <<>>
  /\ LET r == loadOverviewData(lastCall.arg, text) IN
       /\ text' = r.text
       /\ console' = [console EXCEPT ![InitialLoad] =
            IF r.error THEN <<StepErrorMessage("loadOverviewData")>> ELSE <<>>]
  /\ calls' = [calls EXCEPT ![InitialLoad] = <<"loadOverviewData">>]
  /\ UNCHANGED <<charts, lists, present, pos, notified, timer, ticks, writer,
                 harnessVars>>

OverviewNext == CallLoadOverviewData

OverviewSpec == OverviewInit /\ [][OverviewNext]_vars

(* ------------------- direct calls of the render functions ------------- *)
RenderInit ==
  /\ text = [id \in TextIds |-> Blank]
  /\ charts = [id \in ChartIds |-> NoChart]
  /\ lists = [id \in ContainerIds |-> <<>>]
  /\ present \in {InsightListIds, InsightListIds \ {"pediatric-insights"}}
  /\ console = [p \in Procs |-> <<>>]
  /\ pos = [p \in Procs |-> 0]
  /\ calls = [p \in Procs |-> <<>>]
  /\ notified = [p \in Procs |-> <<>>]
  /\ timer = 0
  /\ ticks = 0
  /\ writer = -1
  /\ lastCall = NoCall
  /\ repeated = FALSE
  /\ afterFirst = lists

\* the bookkeeping of a render call: whether it repeats the call before it,
\* and what the containers held after the first call of such a run
Called(call) ==
  LET same == lastCall.fn = call.fn /\ lastCall = call IN
  /\ lastCall' = call
  /\ repeated' = same
  /\ afterFirst' = IF same THEN afterFirst ELSE lists'
  /\ UNCHANGED <<text, charts, present, procVars>>

CallPopulateRiskLists(data) ==
  /\ lists' = populateRiskLists(data, lists).lists
  /\ Called([fn |-> "populateRiskLists", id |-> "", arg |-> data])

CallPopulateInsightList(listId, insights) ==
  /\ lists' = populateInsightList(listId, insights, lists, present)
  /\ Called([fn |-> "populateInsightList", id |-> listId, arg |-> insights])

CallLoadPopulationNorms ==
  /\ lists' = renderNorms(lists)
  /\ Called([fn |-> "loadPopulationNorms", id |-> "", arg |-> <<>>])

InsightInputs == {femaleInsights, pediatricInsights}

RenderNext ==
  \/ \E data \in AllRiskPayloads : CallPopulateRiskLists(data)
  \/ \E listId \in InsightListIds, insights \in InsightInputs :
       CallPopulateInsightList(listId, insights)
  \/ CallLoadPopulationNorms

RenderSpec == RenderInit /\ [][RenderNext]_vars

(* ------------------------------- claims ------------------------------- *)
Logged(p) == {console[p][k] : k \in 1..Len(console[p])}
Invoked(p) == {calls[p][k] : k \in 1..Len(calls[p])}

\* the load step `step` of process p ended in its catch block
StepFailedIn(p, step) == StepErrorMessage(step) \in Logged(p)
\* some load step of process p ended in its catch block
SomeStepFailed(p) == \E k \in 1..Len(InitSteps) : StepFailedIn(p, InitSteps[k])

ErrorsShown(p) ==
  Cardinality({k \in 1..Len(notified[p]) :
                 notified[p][k].className = "error-notification"})
SuccessShown(p) ==
  Cardinality({k \in 1..Len(notified[p]) :
                 notified[p][k].className = "notification notification-success"})

\* C1 (as stated): if the overview step of the initial load fails, none of
\* the later steps of that initial load is ever invoked.
C1_OverviewFailureSkipsLaterSteps ==
  StepFailedIn(InitialLoad, "loadOverviewData")
    => calls[InitialLoad] = <<"loadOverviewData">>

\* C2 (as stated): an initial load in which some step failed shows exactly
\* one error notification, and one in which no step failed shows none.
C2_OneErrorNotificationOnFailure ==
  Returned(InitialLoad)
    => ErrorsShown(InitialLoad) = (IF SomeStepFailed(InitialLoad) THEN 1 ELSE 0)

\* C3 (as stated): a refresh cycle shows the success notification only if
\* none of its three steps failed.
C3_SuccessOnlyIfAllStepsSucceeded ==
  \A c \in Cycles : SuccessShown(c) > 0 => ~SomeStepFailed(c)

\* C4: a refresh cycle that failed does not cancel the timer: once such a
\* cycle has returned, the timer is still installed and its next tick still
\* starts a cycle, in every later state.
C4_TimerSurvivesFailedCycle ==
  \A c \in Cycles :
    (Returned(c) /\ SomeStepFailed(c))
      => (timer > 0 /\ (ticks < MaxCycles => ENABLED Tick))

\* a cycle has failed and returned, and a later tick has started a cycle
C4_Witness ==
  \E c1 \in Cycles, c2 \in Cycles :
    /\ c1 < c2
    /\ Returned(c1) /\ SomeStepFailed(c1)
    /\ Loading(c2)

\* what C5 says the representative age of a label is, in hundredths
ClaimedAge(label) == IF label \in DOMAIN estimates THEN estimates[label] ELSE 4000

RECURSIVE ClaimedTotalAge(_, _)
ClaimedTotalAge(dist, groups) ==
  IF groups = {} THEN 0
  ELSE LET g == CHOOSE x \in groups : TRUE
       IN dist[g] * ClaimedAge(g) + ClaimedTotalAge(dist, groups \ {g})

RECURSIVE TotalCount(_, _)
TotalCount(dist, groups) ==
  IF groups = {} THEN 0
  ELSE LET g == CHOOSE x \in groups : TRUE
       IN dist[g] + TotalCount(dist, groups \ {g})

\* round(sum(count_i * age_i) / sum(count_i)), or 0 when the total is 0
ClaimedAverageAge(dist) ==
  LET total == TotalCount(dist, DOMAIN dist)
      sum == ClaimedTotalAge(dist, DOMAIN dist)
  IN IF total > 0 THEN (2 * sum + 100 * total) \div (200 * total) ELSE 0

\* loadOverviewData was called on a response whose summary it renders
OverviewRendered ==
  /\ lastCall.fn = "loadOverviewData"
  /\ calls[InitialLoad] # <<>>
  /\ lastCall.arg.kind = "json"
  /\ "summary" \in DOMAIN lastCall.arg.data
  /\ "total_patients" \in DOMAIN lastCall.arg.data.summary

RenderedDistribution ==
  LET summary == lastCall.arg.data.summary
  IN IF "age_group_distribution" \in DOMAIN summary
       THEN summary.age_group_distribution ELSE EmptyObject

\* C5 (as stated): for every age-group distribution, the average age that
\* loadOverviewData writes is round(sum(count_i * age_i) / sum(count_i)), or 0
\* when the total count is 0, where age_i is the table value of a known label
\* and 40 for any label not in the table.
C5_AverageAgeIsWeightedMean ==
  OverviewRendered
    => text["average-age"] = ToString(ClaimedAverageAge(RenderedDistribution)) \o " years"

\* C5, for the labels it does hold of: the distributions none of whose labels
\* is the name of a member of Object.prototype
C5_AverageAgeOfOrdinaryLabels ==
  (OverviewRendered /\ DOMAIN RenderedDistribution \cap ObjectPrototypeKeys = {})
    => text["average-age"] = ToString(ClaimedAverageAge(RenderedDistribution)) \o " years"

\* the call before this one was the same call, and the containers are not empty
C6_Witness ==
  /\ repeated
  /\ lastCall.fn = "populateRiskLists"
  /\ Len(lists["high-risk-list"]) = MaxRiskGroups
  /\ lists["medium-risk-list"] # <<>>

\* C6: a render function that fills a container is idempotent: called twice
\* in a row with the same input (populateRiskLists, populateInsightList or
\* loadPopulationNorms), it leaves every container with the same sequence of
\* children as the first call left it with.
C6_RenderIsIdempotent == repeated => lists = afterFirst

\* C7 (as stated): when a numeric field of the response is missing
\* (summary.total_patients), the render step does not throw: it writes "N/A"
\* or a zero for that field and still renders the other fields.
C7_MissingFieldRendersPlaceholder ==
  ( /\ lastCall.fn = "loadOverviewData"
    /\ calls[InitialLoad] # <<>>
    /\ lastCall.arg.kind = "json"
    /\ "summary" \in DOMAIN lastCall.arg.data
    /\ "total_patients" \notin DOMAIN lastCall.arg.data.summary )
    => /\ console[InitialLoad] = <<>>
       /\ text["total-patients"] \in {"N/A", "0"}
       /\ text["average-age"] # Blank
       /\ text["gender-distribution"] # Blank

\* C8: a refresh cycle invokes only the overview, gender-analysis and
\* age-group-analysis steps, and no step of a refresh cycle changes the risk
\* lists, the insight lists or the norms table: every change to these
\* containers is a step of the initial load.
C8_RefreshLeavesStaticContent ==
  /\ [](\A c \in Cycles :
          Invoked(c) \subseteq {"loadOverviewData", "loadGenderAnalysis",
                                "loadAgeGroupAnalysis"})
  /\ [][(\E c \in Cycles : pos'[c] # pos[c]) => lists' = lists]_vars
  /\ [][lists' # lists => (Loading(InitialLoad) /\ pos'[InitialLoad] # pos[InitialLoad])]_vars

\* a refresh cycle has run to its end over containers the initial load filled
C8_Witness ==
  /\ \E c \in Cycles : Returned(c) /\ Len(calls[c]) = 3
  /\ lists["high-risk-list"] # <<>>
  /\ lists["female-insights"] # <<>>
  /\ lists[NormsBodyId] # <<>>

\* C9: refresh cycles are not mutually exclusive: while a cycle is still
\* loading, the next tick of the timer still starts another cycle.
C9_CyclesOverlap ==
  (timer > 0 /\ ticks < MaxCycles /\ \E c \in Cycles : Loading(c)) => ENABLED Tick

\* two cycles overlapped and their writes interleaved: the newer cycle c2 wrote
\* the overview fields, and the older cycle c1 wrote them after it
C9_Witness ==
  \E c1 \in Cycles, c2 \in Cycles :
    /\ c1 < c2
    /\ writer = c1
    /\ pos[c2] >= 2 /\ ~StepFailedIn(c2, "loadOverviewData")

\* C10: there is no terminal error state: when every fetch settles, every
\* started initial load or refresh cycle returns, whether its steps failed
\* or not, and a process that has returned with failures leaves the timer
\* installed and able to start the next cycle.
C10_EveryCycleReturns ==
  /\ \A p \in Procs : Loading(p) ~> Returned(p)
  /\ [](\A p \in Procs :
          (Returned(p) /\ SomeStepFailed(p))
            => (timer > 0 /\ (ticks < MaxCycles => ENABLED Tick)))

\* the initial load and a refresh cycle have both returned after failed steps
C10_Witness ==
  /\ Returned(InitialLoad) /\ SomeStepFailed(InitialLoad)
  /\ \E c \in Cycles : Returned(c) /\ SomeStepFailed(c)

\* the steps process p has invoked are the first steps of `steps`, in order
InvokedInOrder(p, steps) ==
  /\ Len(calls[p]) <= Len(steps)
  /\ \A k \in 1..Len(calls[p]) : calls[p][k] = steps[k]

\* C11: the refresh timer is installed at most once, and only when the
\* initial load has invoked its six steps in the order overview, gender,
\* age-group, risk, insights, norms and the last of them has returned; once
\* installed it is not installed again; no refresh cycle starts before that;
\* and as long as the initial load is still waiting in one of its steps (so
\* for ever, if that fetch never settles) no timer is installed and no
\* refresh cycle has started.
C11_TimerInstalledOnceAfterInitialLoad ==
  /\ [](/\ timer <= 1
        /\ InvokedInOrder(InitialLoad, InitSteps)
        /\ timer > 0 => (Returned(InitialLoad) /\ calls[InitialLoad] = InitSteps)
        /\ \A c \in Cycles : ~NotStarted(c) => (timer > 0 /\ Returned(InitialLoad))
        /\ (NotStarted(InitialLoad) \/ Loading(InitialLoad))
             => (timer = 0 /\ ticks = 0 /\ \A c \in Cycles : NotStarted(c)))
  /\ [][timer > 0 => timer' = timer]_vars
  /\ [][timer' # timer
          => (At(InitialLoad, "loadPopulationNorms") /\ Returned(InitialLoad)')]_vars

\* the timer is installed, the six steps were invoked, and a refresh cycle
\* the timer started is loading
C11_Witness ==
  /\ timer = 1
  /\ calls[InitialLoad] = InitSteps
  /\ \E c \in Cycles : Loading(c)

=============================================================================
